---- MODULE Spec2Model ----
(***************************************************************************)
(* Near-Earth objects and their close approaches: the entity model of      *)
(* models.py (NearEarthObject, CloseApproach), the record parsers of       *)
(* extract.py (load_neos, load_approaches) and the linking step performed  *)
(* by the NEODatabase constructor.                                         *)
(*                                                                         *)
(* Representation of Python values                                         *)
(*   Optional[T]    None is <<>>, a present value x is <<x>>               *)
(*   str            a TLA+ string; the text of a numeric field is kept as  *)
(*                  a sequence of one-character strings so that float()    *)
(*                  can be computed character by character                 *)
(*   float          [k |-> "fin" | "nan" | "inf", m |-> Int]; a finite     *)
(*                  float carries its value in thousandths, an infinity    *)
(*                  its sign, NaN carries 0                                *)
(*   datetime       [year, month, day, hour, minute]                       *)
(*   dict           a function from key strings to values                  *)
(*   object refs    a NearEarthObject is named by its index in neos, a     *)
(*                  CloseApproach by its index in cas; 0 is None           *)
(*   call outcome   [exc |-> "" or the exception's class, val |-> value]   *)
(***************************************************************************)
EXTENDS Integers, Sequences, FiniteSets, TLC

VARIABLES neos, cas, linked, result

vars == <<neos, cas, linked, result>>

(***************************************************************************)
(* Bounds of the exploration.                                              *)
(***************************************************************************)
MaxNeos == 2
MaxCas == 2

None == <<>>
Some(x) == <<x>>

Ok(v) == [exc |-> "", val |-> v]
Raise(e) == [exc |-> e, val |-> None]

(***************************************************************************)
(* Floats.                                                                 *)
(***************************************************************************)
NaN == [k |-> "nan", m |-> 0]
Inf(sign) == [k |-> "inf", m |-> sign]
Fin(milli) == [k |-> "fin", m |-> milli]

IsNaN(f) == f.k = "nan"
IsFinite(f) == f.k = "fin"

PyNone == [t |-> "NoneType", s |-> <<>>, f |-> NaN]
PyStr(chars) == [t |-> "str", s |-> chars, f |-> NaN]
PyFloat(f) == [t |-> "float", s |-> <<>>, f |-> f]

Digits == <<"0", "1", "2", "3", "4", "5", "6", "7", "8", "9">>
IsDigit(c) == \E d \in 1..10 : Digits[d] = c
DigitVal(c) == (CHOOSE d \in 1..10 : Digits[d] = c) - 1

Lower(c) ==
    CASE c = "N" -> "n"
      [] c = "A" -> "a"
      [] c = "I" -> "i"
      [] c = "F" -> "f"
      [] c = "T" -> "t"
      [] c = "Y" -> "y"
      [] OTHER -> c

IsSpace(c) == c \in {" ", "\t", "\n", "\r"}

RECURSIVE LStrip(_)
LStrip(s) == IF s # <<>> /\ IsSpace(Head(s)) THEN LStrip(Tail(s)) ELSE s

RECURSIVE RStrip(_)
RStrip(s) ==
    IF s # <<>> /\ IsSpace(s[Len(s)]) THEN RStrip(SubSeq(s, 1, Len(s) - 1)) ELSE s

(* value of a run of digits read as an integer *)
RECURSIVE DigitsValue(_, _)
DigitsValue(s, acc) ==
    IF s = <<>> THEN acc ELSE DigitsValue(Tail(s), 10 * acc + DigitVal(Head(s)))

AllDigits(s) == \A i \in 1..Len(s) : IsDigit(s[i])

(* the first three fractional digits, in thousandths *)
FracMilli(s) ==
    LET d(i) == IF i <= Len(s) THEN DigitVal(s[i]) ELSE 0
    IN  100 * d(1) + 10 * d(2) + d(3)

(* an unsigned decimal literal: digits, optionally a point and digits,     *)
(* with at least one digit overall                                         *)
ParseUnsigned(s) ==
    LET dots == {i \in 1..Len(s) : s[i] = "."}
    IN  IF dots = {}
        THEN IF s # <<>> /\ AllDigits(s)
             THEN Ok(Fin(1000 * DigitsValue(s, 0)))
             ELSE Raise("ValueError")
        ELSE LET p == CHOOSE i \in dots : TRUE
                 ip == SubSeq(s, 1, p - 1)
                 fp == SubSeq(s, p + 1, Len(s))
             IN  IF Cardinality(dots) = 1 /\ AllDigits(ip) /\ AllDigits(fp)
                    /\ Len(ip) + Len(fp) > 0
                 THEN Ok(Fin(1000 * DigitsValue(ip, 0) + FracMilli(fp)))
                 ELSE Raise("ValueError")

(* float(str): surrounding blanks stripped, an optional sign, then nan,    *)
(* inf, infinity (any case) or a decimal literal                           *)
ParseFloat(chars) ==
    LET s0 == RStrip(LStrip(chars))
        signed == s0 # <<>> /\ Head(s0) \in {"+", "-"}
        sign == IF signed /\ Head(s0) = "-" THEN -1 ELSE 1
        body == IF signed THEN Tail(s0) ELSE s0
        low == [i \in 1..Len(body) |-> Lower(body[i])]
    IN  IF low = <<"n", "a", "n">> THEN Ok(NaN)
        ELSE IF low = <<"i", "n", "f">>
                \/ low = <<"i", "n", "f", "i", "n", "i", "t", "y">>
        THEN Ok(Inf(sign))
        ELSE LET u == ParseUnsigned(body)
             IN  IF u.exc = "" THEN Ok(Fin(sign * u.val.m)) ELSE u

(* the builtin float(x) *)
float(x) ==
    CASE x.t = "float" -> Ok(x.f)
      [] x.t = "str" -> ParseFloat(x.s)
      [] OTHER -> Raise("TypeError")

(* bool(x) of an Optional[str] and of a str-or-empty numeric field *)
Truthy(opt) == opt # None /\ opt # Some("")

(***************************************************************************)
(* helpers.cd_to_datetime / helpers.datetime_to_str                        *)
(***************************************************************************)
DateTimes ==
    { [year |-> 1900, month |-> 1, day |-> 1, hour |-> 12, minute |-> 0],
      [year |-> 2020, month |-> 12, day |-> 31, hour |-> 23, minute |-> 59] }

Pad2(n) == IF n < 10 THEN "0" \o ToString(n) ELSE ToString(n)

(* the minute-resolution text of a datetime *)
MinuteText(t) ==
    ToString(t.year) \o "-" \o Pad2(t.month) \o "-" \o Pad2(t.day)
        \o " " \o Pad2(t.hour) \o ":" \o Pad2(t.minute)

(* formats a datetime; applied to None it fails on the missing method *)
datetime_to_str(time) ==
    IF time = None THEN Raise("AttributeError") ELSE Ok(MinuteText(time[1]))

(* parses the text of a supported datetime and fails on any other text *)
cd_to_datetime(s) ==
    IF \E t \in DateTimes : MinuteText(t) = s
    THEN Ok(CHOOSE t \in DateTimes : MinuteText(t) = s)
    ELSE Raise("ValueError")

(***************************************************************************)
(* class NearEarthObject                                                   *)
(***************************************************************************)
(* variant: the approaches list is a default shared between objects and    *)
(* already holds an approach                                               *)
NearEarthObject_init_shared_approaches(pha, pdes, name, diameter) ==
    LET d == float(diameter)
    IN  IF d.exc # ""
        THEN Raise(d.exc)
        ELSE Ok([designation |-> pdes,
                 name |-> name,
                 diameter |-> d.val,
                 hazardous |-> pha,
                 approaches |-> <<1>>])

NearEarthObject_init(pha, pdes, name, diameter) ==
    LET d == float(diameter)
    IN  IF d.exc # ""
        THEN Raise(d.exc)
        ELSE Ok([designation |-> pdes,
                 name |-> name,
                 diameter |-> d.val,
                 hazardous |-> pha,
                 approaches |-> <<>>])

fullname(neo) ==
    IF Truthy(neo.name)
    THEN neo.designation \o " " \o neo.name[1]
    ELSE neo.designation

NearEarthObject_serialize(neo) ==
    [designation |-> neo.designation,
     name |-> neo.name,
     diameter_km |-> neo.diameter,
     potentially_hazardous |-> neo.hazardous]

(***************************************************************************)
(* class CloseApproach                                                     *)
(***************************************************************************)
CloseApproach_init(des, cd, dist, v_rel) ==
    LET t == IF Truthy(cd) THEN cd_to_datetime(cd[1]) ELSE Ok(None)
        d == float(dist)
        v == float(v_rel)
    IN  IF t.exc # "" THEN Raise(t.exc)
        ELSE IF d.exc # "" THEN Raise(d.exc)
        ELSE IF v.exc # "" THEN Raise(v.exc)
        ELSE Ok([_designation |-> des,
                 time |-> IF Truthy(cd) THEN Some(t.val) ELSE None,
                 distance |-> d.val,
                 velocity |-> v.val,
                 neo |-> 0])

(* bool(self.time): a datetime object is always true, None is false *)
(* variant: the time is formatted without testing it *)
time_str_unguarded(ca) == datetime_to_str(ca.time)

time_str(ca) ==
    IF ca.time # None THEN datetime_to_str(ca.time) ELSE Ok("")

(* format(f, ".2f") *)
Format2f(f) ==
    IF f.k = "nan" THEN "nan"
    ELSE IF f.k = "inf" THEN (IF f.m < 0 THEN "-inf" ELSE "inf")
    ELSE LET a == IF f.m < 0 THEN -f.m ELSE f.m
             q0 == a \div 10
             r == a % 10
             q == IF r > 5 \/ (r = 5 /\ q0 % 2 = 1) THEN q0 + 1 ELSE q0
         IN  (IF f.m < 0 THEN "-" ELSE "")
                 \o ToString(q \div 100) \o "." \o Pad2(q % 100)

(* repr() of a str without quote characters *)
repr(s) == "'" \o s \o "'"

(* variant: an approach without object is rendered with an empty name *)
CloseApproach_str_tolerant(ca) ==
    LET ts == time_str(ca)
        name == IF ca.neo = 0 THEN "" ELSE fullname(neos[ca.neo])
    IN  IF ts.exc # "" THEN Raise(ts.exc)
        ELSE Ok("At " \o ts.val \o ", '" \o repr(name)
                \o "' approaches Earth at a distance of "
                \o Format2f(ca.distance) \o " au and a velocity of "
                \o Format2f(ca.velocity) \o " km/s")

CloseApproach_str(ca) ==
    LET ts == time_str(ca)
    IN  IF ts.exc # "" THEN Raise(ts.exc)
        ELSE IF ca.neo = 0 THEN Raise("AttributeError")
        ELSE Ok("At " \o ts.val \o ", '" \o repr(fullname(neos[ca.neo]))
                \o "' approaches Earth at a distance of "
                \o Format2f(ca.distance) \o " au and a velocity of "
                \o Format2f(ca.velocity) \o " km/s")

(* {**a, **b} *)
Merge(a, b) ==
    [k \in DOMAIN a \cup DOMAIN b |-> IF k \in DOMAIN b THEN b[k] ELSE a[k]]

(* d[key] = value *)
SetItem(d, key, value) ==
    [k \in DOMAIN d \cup {key} |-> IF k = key THEN value ELSE d[k]]

(* variant: the nested mapping is stored in both modes *)
CloseApproach_serialize_keeps_neo(ca, isCsv) ==
    LET ts == time_str(ca)
        serialized_result ==
            [datetime_utc |-> ts.val,
             distance_au |-> ca.distance,
             velocity_km_s |-> ca.velocity]
    IN  IF ts.exc # "" THEN Raise(ts.exc)
        ELSE IF ca.neo = 0 THEN Raise("AttributeError")
        ELSE LET serialized_neo == NearEarthObject_serialize(neos[ca.neo])
                 nested == SetItem(serialized_result, "neo", serialized_neo)
             IN  IF isCsv
                 THEN Ok(Merge(nested, serialized_neo))
                 ELSE Ok(nested)

CloseApproach_serialize(ca, isCsv) ==
    LET ts == time_str(ca)
        serialized_result ==
            [datetime_utc |-> ts.val,
             distance_au |-> ca.distance,
             velocity_km_s |-> ca.velocity]
    IN  IF ts.exc # "" THEN Raise(ts.exc)
        ELSE IF ca.neo = 0 THEN Raise("AttributeError")
        ELSE LET serialized_neo == NearEarthObject_serialize(neos[ca.neo])
             IN  IF isCsv
                 THEN Ok(Merge(serialized_result, serialized_neo))
                 ELSE Ok(SetItem(serialized_result, "neo", serialized_neo))

(***************************************************************************)
(* extract.py                                                              *)
(***************************************************************************)
RECURSIVE load_neos_loop(_, _)
load_neos_loop(rows, neos_arr) ==
    IF rows = <<>>
    THEN Ok(neos_arr)
    ELSE LET neo == Head(rows)
             d == IF neo.diameter # <<>> THEN neo.diameter ELSE <<"n", "a", "n">>
             pha == IF neo.pha = "Y" THEN TRUE ELSE FALSE
             name == IF Truthy(neo.name) THEN neo.name ELSE None
             o == NearEarthObject_init(pha, neo.pdes, name, PyStr(d))
         IN  IF o.exc # ""
             THEN Raise(o.exc)
             ELSE load_neos_loop(Tail(rows), Append(neos_arr, o.val))

load_neos(rows) == load_neos_loop(rows, <<>>)

(* a record of the "data" array is positional: ca[0], ca[3], ca[4], ca[7]  *)
(* are the 1st, 4th, 5th and 8th entries                                   *)
RECURSIVE load_approaches_loop(_, _)
load_approaches_loop(data, cas_arr) ==
    IF data = <<>>
    THEN Ok(cas_arr)
    ELSE LET ca == Head(data)
             o == CloseApproach_init(ca[1], ca[4], ca[5], ca[8])
         IN  IF o.exc # ""
             THEN Raise(o.exc)
             ELSE load_approaches_loop(Tail(data), Append(cas_arr, o.val))

load_approaches(data) == load_approaches_loop(data, <<>>)

(***************************************************************************)
(* NEODatabase.__init__: the linking of approaches to their objects        *)
(***************************************************************************)
(* the designation index; a later object replaces an earlier one *)
Lookup(ns, des) ==
    LET hits == {i \in 1..Len(ns) : ns[i].designation = des}
    IN  IF hits = {} THEN 0 ELSE CHOOSE i \in hits : \A h \in hits : h <= i

RECURSIVE ApproachesOf(_, _, _, _)
ApproachesOf(ns, approaches, i, j) ==
    IF j > Len(approaches)
    THEN <<>>
    ELSE (IF Lookup(ns, approaches[j]._designation) = i THEN <<j>> ELSE <<>>)
             \o ApproachesOf(ns, approaches, i, j + 1)

LinkedNeos(ns, approaches) ==
    [i \in 1..Len(ns) |->
        [ns[i] EXCEPT !.approaches = @ \o ApproachesOf(ns, approaches, i, 1)]]

LinkedApproaches(ns, approaches) ==
    [j \in 1..Len(approaches) |->
        [approaches[j] EXCEPT !.neo = Lookup(ns, approaches[j]._designation)]]

(***************************************************************************)
(* Inputs.                                                                 *)
(***************************************************************************)
Chars_16_84 == <<"1", "6", ".", "8", "4">>
Chars_neg == <<"-", "1", ".", "5">>
Chars_abc == <<"a", "b", "c">>
Chars_0_15 == <<"0", ".", "1", "5">>
Chars_5_2 == <<" ", "5", ".", "2">>
Chars_nan == <<"N", "a", "N">>

(* rows of the CSV file; name is None when the column is missing *)
NeoRows ==
    { [pdes |-> "433", name |-> Some("Eros"), diameter |-> Chars_16_84, pha |-> "N"],
      [pdes |-> "2020 AB", name |-> Some(""), diameter |-> <<>>, pha |-> "Y"],
      [pdes |-> "", name |-> None, diameter |-> Chars_neg, pha |-> "y"],
      [pdes |-> "433", name |-> Some("Eros"), diameter |-> Chars_abc, pha |-> "N"] }

(* arguments of direct constructor calls; the second uses the defaults *)
NeoArgs ==
    { [pha |-> TRUE, pdes |-> "433", name |-> Some("Eros"),
       diameter |-> PyFloat(Fin(16840))],
      [pha |-> FALSE, pdes |-> "", name |-> None, diameter |-> PyFloat(NaN)],
      [pha |-> FALSE, pdes |-> "433", name |-> Some(""), diameter |-> PyStr(<<>>)],
      [pha |-> FALSE, pdes |-> "433", name |-> Some(""), diameter |-> PyFloat(NaN)],
      [pha |-> TRUE, pdes |-> "999999", name |-> None, diameter |-> PyNone] }

CadRecord(des, cd, dist, v_rel) == <<des, "", "", cd, dist, "", "", v_rel>>

CadRecords ==
    { CadRecord("433", Some("1900-01-01 12:00"), PyStr(Chars_0_15), PyStr(Chars_5_2)),
      CadRecord("999999", None, PyStr(Chars_0_15), PyStr(Chars_5_2)),
      CadRecord("433", Some(""), PyStr(Chars_nan), PyStr(Chars_5_2)),
      CadRecord("433", Some("1900-13-01 12:00"), PyStr(Chars_0_15), PyStr(Chars_5_2)),
      CadRecord("433", Some("2020-12-31 23:59"), PyStr(Chars_abc), PyStr(Chars_5_2)),
      CadRecord("433", Some("2020-12-31 23:59"), PyStr(Chars_0_15), PyNone) }

(* arguments of direct constructor calls; the first uses the defaults *)
CaArgs ==
    { [des |-> "", cd |-> None, dist |-> PyFloat(Fin(0)), v_rel |-> PyFloat(Fin(0))],
      [des |-> "433", cd |-> Some("2020-12-31 23:59"), dist |-> PyFloat(Fin(150)),
       v_rel |-> PyStr(Chars_5_2)],
      [des |-> "433", cd |-> Some("yesterday"), dist |-> PyFloat(Fin(150)),
       v_rel |-> PyFloat(Fin(5200))],
      [des |-> "433", cd |-> None, dist |-> PyStr(<<>>), v_rel |-> PyFloat(Fin(5200))] }

SeqsUpTo(S, n) == UNION {[1..k -> S] : k \in 0..n}

(***************************************************************************)
(* The state machine.                                                      *)
(*                                                                         *)
(* result holds the last call: its name, its arguments, the exception it   *)
(* raised ("" when it returned) and the value it returned.  Arguments and  *)
(* values are kept in one field per type, each None when it does not       *)
(* apply: neo_args / ca_args the constructor arguments, rows / data the    *)
(* file contents, neo / ca the constructed object, neo_list / ca_list the  *)
(* returned collection, text a returned str, mapping a returned dict.      *)
(***************************************************************************)
NoCall ==
    [op |-> "", exc |-> "", target |-> 0, isCsv |-> FALSE,
     neo_args |-> None, ca_args |-> None, rows |-> <<>>, data |-> <<>>,
     neo |-> None, ca |-> None, neo_list |-> <<>>, ca_list |-> <<>>,
     text |-> None, mapping |-> None]

(* the returned value as an Optional: None when the call raised *)
Returned(o) == IF o.exc = "" THEN Some(o.val) ELSE None

Init ==
    /\ neos = <<>>
    /\ cas = <<>>
    /\ linked = FALSE
    /\ result = NoCall

(* neos.append(NearEarthObject(...)) by a caller building the collection *)
NewNearEarthObject ==
    \E a \in NeoArgs :
        /\ ~linked
        /\ Len(neos) < MaxNeos
        /\ LET o == NearEarthObject_init(a.pha, a.pdes, a.name, a.diameter)
           IN  /\ neos' = IF o.exc = "" THEN Append(neos, o.val) ELSE neos
               /\ result' = [NoCall EXCEPT !.op = "NearEarthObject",
                                           !.neo_args = Some(a),
                                           !.exc = o.exc,
                                           !.neo = Returned(o)]
        /\ UNCHANGED <<cas, linked>>

(* neos = load_neos(path) *)
LoadNeos ==
    \E rows \in SeqsUpTo(NeoRows, MaxNeos) :
        /\ ~linked
        /\ neos = <<>>
        /\ LET o == load_neos(rows)
           IN  /\ neos' = IF o.exc = "" THEN o.val ELSE neos
               /\ result' = [NoCall EXCEPT !.op = "load_neos",
                                           !.rows = rows,
                                           !.exc = o.exc,
                                           !.neo_list = o.val]
        /\ UNCHANGED <<cas, linked>>

(* approaches.append(CloseApproach(...)) by a caller building the collection *)
NewCloseApproach ==
    \E a \in CaArgs :
        /\ ~linked
        /\ Len(cas) < MaxCas
        /\ LET o == CloseApproach_init(a.des, a.cd, a.dist, a.v_rel)
           IN  /\ cas' = IF o.exc = "" THEN Append(cas, o.val) ELSE cas
               /\ result' = [NoCall EXCEPT !.op = "CloseApproach",
                                           !.ca_args = Some(a),
                                           !.exc = o.exc,
                                           !.ca = Returned(o)]
        /\ UNCHANGED <<neos, linked>>

(* approaches = load_approaches(path) *)
LoadApproaches ==
    \E data \in SeqsUpTo(CadRecords, MaxCas) :
        /\ ~linked
        /\ cas = <<>>
        /\ LET o == load_approaches(data)
           IN  /\ cas' = IF o.exc = "" THEN o.val ELSE cas
               /\ result' = [NoCall EXCEPT !.op = "load_approaches",
                                           !.data = data,
                                           !.exc = o.exc,
                                           !.ca_list = o.val]
        /\ UNCHANGED <<neos, linked>>

(* NEODatabase(neos, approaches) *)
Link ==
    /\ ~linked
    /\ neos' = LinkedNeos(neos, cas)
    /\ cas' = LinkedApproaches(neos, cas)
    /\ linked' = TRUE
    /\ result' = [NoCall EXCEPT !.op = "NEODatabase"]

ReadFullname ==
    \E i \in 1..Len(neos) :
        /\ result' = [NoCall EXCEPT !.op = "fullname",
                                    !.target = i,
                                    !.text = Some(fullname(neos[i]))]
        /\ UNCHANGED <<neos, cas, linked>>

ReadTimeStr ==
    \E j \in 1..Len(cas) :
        /\ LET o == time_str(cas[j])
           IN  result' = [NoCall EXCEPT !.op = "time_str",
                                        !.target = j,
                                        !.exc = o.exc,
                                        !.text = Returned(o)]
        /\ UNCHANGED <<neos, cas, linked>>

NeoSerialize ==
    \E i \in 1..Len(neos) :
        /\ result' = [NoCall EXCEPT !.op = "NearEarthObject.serialize",
                                    !.target = i,
                                    !.mapping = Some(NearEarthObject_serialize(neos[i]))]
        /\ UNCHANGED <<neos, cas, linked>>

ApproachStr ==
    \E j \in 1..Len(cas) :
        /\ LET o == CloseApproach_str(cas[j])
           IN  result' = [NoCall EXCEPT !.op = "CloseApproach.__str__",
                                        !.target = j,
                                        !.exc = o.exc,
                                        !.text = Returned(o)]
        /\ UNCHANGED <<neos, cas, linked>>

ApproachSerialize ==
    \E j \in 1..Len(cas), isCsv \in BOOLEAN :
        /\ LET o == CloseApproach_serialize(cas[j], isCsv)
           IN  result' = [NoCall EXCEPT !.op = "CloseApproach.serialize",
                                        !.target = j,
                                        !.isCsv = isCsv,
                                        !.exc = o.exc,
                                        !.mapping = Returned(o)]
        /\ UNCHANGED <<neos, cas, linked>>

Next ==
    \/ NewNearEarthObject
    \/ LoadNeos
    \/ NewCloseApproach
    \/ LoadApproaches
    \/ Link
    \/ ReadFullname
    \/ ReadTimeStr
    \/ NeoSerialize
    \/ ApproachStr
    \/ ApproachSerialize

Spec == Init /\ [][Next]_vars

(***************************************************************************)
(* Properties.                                                             *)
(***************************************************************************)
ApproachKeys == {"datetime_utc", "distance_au", "velocity_km_s"}
NeoKeys == {"designation", "name", "diameter_km", "potentially_hazardous"}

InSeq(x, seq) == \E k \in 1..Len(seq) : seq[k] = x

(* C1: for every linked CloseApproach, serialize(isCsv=True) returns a     *)
(* mapping whose keys are exactly the three approach keys and the four     *)
(* object keys, without a neo key, and serialize(isCsv=False) returns a    *)
(* mapping whose keys are exactly the three approach keys and neo, the     *)
(* value under neo being the object's own serialize() mapping.             *)
C1_SerializeShape ==
    /\ \A j \in 1..Len(cas) :
          cas[j].neo # 0 =>
            LET flat == CloseApproach_serialize(cas[j], TRUE)
                nested == CloseApproach_serialize(cas[j], FALSE)
            IN  /\ flat.exc = ""
                /\ DOMAIN flat.val = ApproachKeys \cup NeoKeys
                /\ "neo" \notin DOMAIN flat.val
                /\ nested.exc = ""
                /\ DOMAIN nested.val = ApproachKeys \cup {"neo"}
                /\ nested.val["neo"] = NearEarthObject_serialize(neos[cas[j].neo])
    /\ (result.op = "CloseApproach.serialize" /\ result.exc = "") =>
          DOMAIN result.mapping[1] =
              IF result.isCsv THEN ApproachKeys \cup NeoKeys
                              ELSE ApproachKeys \cup {"neo"}

C1_Witness ==
    /\ linked
    /\ result.op = "CloseApproach.serialize"
    /\ result.exc = ""
    /\ result.isCsv
    /\ cas[result.target].neo # 0

(* C2: parsed collections are unlinked (every approach has neo None, every *)
(* object an empty approaches list); after linking, an approach whose      *)
(* designation matches some object refers to an object of that designation *)
(* and is a member of its approaches, and an approach whose designation    *)
(* matches no object still has neo None and is in no object's approaches.  *)
C2_Linking ==
    /\ ~linked =>
          /\ \A j \in 1..Len(cas) : cas[j].neo = 0
          /\ \A i \in 1..Len(neos) : neos[i].approaches = <<>>
    /\ linked =>
          \A j \in 1..Len(cas) :
            LET ref == cas[j]._designation
            IN  IF \E i \in 1..Len(neos) : neos[i].designation = ref
                THEN /\ cas[j].neo \in 1..Len(neos)
                     /\ neos[cas[j].neo].designation = ref
                     /\ InSeq(j, neos[cas[j].neo].approaches)
                ELSE /\ cas[j].neo = 0
                     /\ \A i \in 1..Len(neos) : ~InSeq(j, neos[i].approaches)

C2_Witness ==
    /\ linked
    /\ \E j \in 1..Len(cas) : cas[j].neo # 0
    /\ \E j \in 1..Len(cas) : cas[j].neo = 0
    /\ neos # <<>>

(* C3: the name of every NearEarthObject, built by the constructor or by   *)
(* load_neos, is None when the supplied name is empty or absent and the    *)
(* supplied string otherwise; it is never the empty string.                *)
C3_NameNormalized ==
    /\ \A i \in 1..Len(neos) : neos[i].name # Some("")
    /\ (result.op = "NearEarthObject" /\ result.exc = "") =>
          result.neo[1].name =
              IF Truthy(result.neo_args[1].name) THEN result.neo_args[1].name ELSE None
    /\ (result.op = "load_neos" /\ result.exc = "") =>
          \A k \in 1..Len(result.rows) :
              result.neo_list[k].name =
                  IF Truthy(result.rows[k].name) THEN result.rows[k].name ELSE None

(* C4: whatever the raw diameter holds, load_neos and the constructor do   *)
(* not raise, the diameter is NaN or a finite non-negative float, and an   *)
(* empty or unparseable field gives NaN.                                   *)
C4_DiameterTotal ==
    /\ result.op \in {"NearEarthObject", "load_neos"} => result.exc = ""
    /\ \A i \in 1..Len(neos) :
          \/ IsNaN(neos[i].diameter)
          \/ IsFinite(neos[i].diameter) /\ neos[i].diameter.m >= 0
    /\ (result.op = "load_neos" /\ result.exc = "") =>
          \A k \in 1..Len(result.rows) :
              (\/ result.rows[k].diameter = <<>>
               \/ ParseFloat(result.rows[k].diameter).exc # "")
                  => IsNaN(result.neo_list[k].diameter)

(* C5: whatever raw distance and velocity are passed, the CloseApproach    *)
(* constructor (called directly or by load_approaches) does not raise: a   *)
(* parseable value is stored as that float, an unparseable or missing one  *)
(* as 0.0.                                                                 *)
Stored(raw) == IF float(raw).exc = "" THEN float(raw).val ELSE Fin(0)

TimestampAccepted(cd) == ~Truthy(cd) \/ cd_to_datetime(cd[1]).exc = ""

C5_DistanceVelocityTotal ==
    /\ (result.op = "CloseApproach" /\ TimestampAccepted(result.ca_args[1].cd)) =>
          /\ result.exc = ""
          /\ result.ca[1].distance = Stored(result.ca_args[1].dist)
          /\ result.ca[1].velocity = Stored(result.ca_args[1].v_rel)
    /\ (result.op = "load_approaches"
            /\ \A k \in 1..Len(result.data) : TimestampAccepted(result.data[k][4])) =>
          /\ result.exc = ""
          /\ \A k \in 1..Len(result.data) :
                /\ result.ca_list[k].distance = Stored(result.data[k][5])
                /\ result.ca_list[k].velocity = Stored(result.data[k][8])

(* C6: constructing a CloseApproach with a malformed or absent raw         *)
(* timestamp does not raise and gives a None time.                         *)
NumbersAccepted(dist, v_rel) == float(dist).exc = "" /\ float(v_rel).exc = ""

C6_TimestampRecovered ==
    (/\ result.op = "CloseApproach"
     /\ NumbersAccepted(result.ca_args[1].dist, result.ca_args[1].v_rel)
     /\ \/ result.ca_args[1].cd = None
        \/ cd_to_datetime(result.ca_args[1].cd[1]).exc # "") =>
        /\ result.exc = ""
        /\ result.ca[1].time = None

(* C7: the time of a CloseApproach is None exactly when the raw timestamp  *)
(* passed to the constructor was falsy (None or empty); time_str does not  *)
(* raise and returns the empty string for a None time and the formatted    *)
(* time otherwise, whether or not neo is set.                              *)
C7_TimeStr ==
    /\ (result.op = "CloseApproach" /\ result.exc = "") =>
          (result.ca[1].time = None <=> ~Truthy(result.ca_args[1].cd))
    /\ (result.op = "load_approaches" /\ result.exc = "") =>
          \A k \in 1..Len(result.data) :
              result.ca_list[k].time = None <=> ~Truthy(result.data[k][4])
    /\ result.op = "time_str" =>
          /\ result.exc = ""
          /\ result.text =
                IF cas[result.target].time = None
                THEN Some("")
                ELSE Some(MinuteText(cas[result.target].time[1]))

C7_Witness ==
    /\ result.op = "time_str"
    /\ result.exc = ""
    /\ cas[result.target].time = None
    /\ cas[result.target].neo = 0

(* C8: on a CloseApproach whose neo is unset, __str__ and serialize in     *)
(* both modes fail with an AttributeError, and the failed call leaves the  *)
(* fields of the approach (and every other object) unchanged.              *)
C8_UnlinkedFails ==
    [][(/\ result'.op \in {"CloseApproach.__str__", "CloseApproach.serialize"}
        /\ cas[result'.target].neo = 0) =>
          /\ result'.exc = "AttributeError"
          /\ cas' = cas
          /\ neos' = neos]_vars

C8_Witness ==
    /\ linked
    /\ result.op = "CloseApproach.__str__"
    /\ result.exc = "AttributeError"
    /\ cas[result.target].neo = 0

(* C9: no NearEarthObject returned by load_neos has an empty designation;  *)
(* a row whose pdes is blank is rejected.                                  *)
C9_BlankDesignationRejected ==
    (result.op = "load_neos" /\ result.exc = "") =>
        \A k \in 1..Len(result.neo_list) : result.neo_list[k].designation # ""

(* C10: fullname is "{designation} {name}" if and only if name is not      *)
(* None, and the designation alone otherwise; reading it changes no field. *)
C10_Fullname ==
    [][result'.op = "fullname" =>
          /\ result'.exc = ""
          /\ result'.text =
                IF neos[result'.target].name # None
                THEN Some(neos[result'.target].designation \o " "
                              \o neos[result'.target].name[1])
                ELSE Some(neos[result'.target].designation)
          /\ neos' = neos
          /\ cas' = cas]_vars
====
